---- MODULE Spec2Model ----
(***************************************************************************)
(* A model of sql-connect: the busy-backoff retry primitive (backoff.rs),  *)
(* statement execution and the row stream of the SQLite backend            *)
(* (backend/sqlite.rs) and the transaction scope (transaction.rs).         *)
(*                                                                         *)
(* Six specifications share the module, one per subsystem:                 *)
(*   SpecBackoff  BackoffFuture::poll wrapped around an abstract operation *)
(*   SpecExec     Statement::execute, Rows::poll_next, Drop for Rows       *)
(*   SpecTxn      begin, savepoint, Transaction::commit / rollback, Drop   *)
(*   SpecSplit    the statement-list splitter (parsing.rs)                 *)
(*   SpecScript   prepare_list and execute_script (lib.rs)                 *)
(*   SpecDecode   FromValue for the integer types (value.rs)               *)
(* The variables of the other subsystems stay at their initial value.      *)
(***************************************************************************)
EXTENDS Integers, Sequences, FiniteSets, TLC

(* ------------------------------ bounds --------------------------------- *)

\* N: the number of delays the backoff generator yields before it is exhausted.
ScheduleLen == 2

\* How often the wrapped operation of SpecBackoff may itself be pending.
MaxPending == 2

\* Calls of sqlite3_step on the statement handle within one execution.
MaxSteps == 5

\* Executions of the statement (the first, and re-executions after a drop).
MaxExecs == 2

\* Rows of the statement's result set, and its result columns.
MaxRows == 2

MaxCols == 1

\* Rows inserted, and transactions begun, on the connection.
MaxInserts == 2

MaxTxns == 2

\* Calls of savepoint() on the connection or on its Transaction.
MaxSavepoints == 2

\* Characters of the string given to the splitter, and of a script.
MaxLen == 5

MaxScriptLen == 4

VARIABLES
    bf,         \* SpecBackoff: the BackoffFuture (delay, backoff, task state)
    opLog,      \* SpecBackoff: outcome of every poll of the wrapped future
    stmt,       \* SpecExec: the prepared statement handle inside the engine
    stepLog,    \* SpecExec: result code of every sqlite3_step of this execution
    exec,       \* SpecExec: what Connection::execute resolved to
    rows,       \* SpecExec: the backend Rows stream of this execution
    out,        \* SpecExec: every item poll_next handed to the consumer
    resets,     \* SpecExec: sqlite3_reset calls made for this stream
    execCount,  \* SpecExec: executions started so far
    db,         \* SpecTxn: the engine's database and its open transaction
    txn,        \* SpecTxn: the Transaction object
    txnLog,     \* SpecTxn: prepare and execute calls made for this Transaction
    scope,      \* SpecTxn: what the caller did with it, and what it inserted
    lastQuery,  \* SpecTxn: rows the latest query returned, if nothing came since
    counts,     \* SpecTxn: rows inserted and transactions begun so far
    next_savepoint, \* SpecTxn: the Connection's savepoint counter
    spLog,      \* SpecTxn: every call of savepoint(), and what it prepared
    script,     \* SpecSplit, SpecScript: the string handed to the splitter
    iter,       \* SpecSplit: the Statements iterator
    segs,       \* SpecSplit: what every call of next() returned
    run,        \* SpecScript: the call of prepare_list or execute_script
    value,      \* SpecDecode: the column value and the type asked for
    decoded     \* SpecDecode: what FromValue::from returned

bvars == <<bf, opLog>>

evars == <<stmt, stepLog, exec, rows, out, resets, execCount>>

pvars == <<next_savepoint, spLog>>

tvars == <<db, txn, txnLog, scope, lastQuery, counts, next_savepoint, spLog>>

xvars == <<script, iter, segs, run, value, decoded>>

vars == <<bf, opLog, stmt, stepLog, exec, rows, out, resets, execCount,
          db, txn, txnLog, scope, lastQuery, counts, next_savepoint, spLog,
          script, iter, segs, run, value, decoded>>

(* ------------------------------ error.rs ------------------------------- *)

ErrorKinds ==
    {"InvalidString", "InvalidPath", "InvalidQuery", "Failure", "Busy", "SchemaChanged"}

Ok == [tag |-> "Ok", kind |-> "-"]

Pending == [tag |-> "Pending", kind |-> "-"]

Err(kind) == [tag |-> "Err", kind |-> kind]

NoResult == [tag |-> "None", kind |-> "-"]

\* A mutation of is_busy: every opaque failure is taken for a busy condition.
IsBusyFailureToo(kind) == kind \in {"Busy", "Failure"}

IsBusy(kind) == kind = "Busy"

(* ------------------------------ backoff.rs ----------------------------- *)

\* A mutation of the generator: it never runs out.
NextBackoffEndless(drawn) == "Some"

\* The generator hands out the delays of a fixed schedule, then None.
NextBackoff(drawn) == IF drawn < ScheduleLen THEN "Some" ELSE "None"

\* What one poll of the wrapped future may return.
InnerOutcomes(s) ==
    {Ok} \cup {Err(k) : k \in ErrorKinds}
        \cup (IF Cardinality({i \in 1..Len(s.log) : s.log[i] = Pending}) < MaxPending
              THEN {Pending} ELSE {})

\* BackoffFuture::poll, one call: the set of states it may return in.
\*   early counts the polls of the wrapped future made while the delay
\*   armed for the preceding busy outcome has not elapsed.
RECURSIVE BackoffFuturePoll(_)
BackoffFuturePoll(s) ==
    UNION {
        LET s1 == [s EXCEPT !.log = Append(@, o),
                            !.early = IF s.delay = "armed" THEN @ + 1 ELSE @]
        IN  CASE o.tag = "Pending" ->
                    {[s1 EXCEPT !.state = "wait_inner"]}
              [] o.tag = "Err" /\ IsBusy(o.kind) ->
                    IF NextBackoff(s1.drawn) = "None"
                    THEN {[s1 EXCEPT !.state = "done", !.result = o]}
                    ELSE LET s2 == [s1 EXCEPT !.drawn = @ + 1]
                         IN  IF s1.delay = "none"
                             \* delay.replace(Delay::new(duration)); loop again
                             THEN BackoffFuturePoll([s2 EXCEPT !.delay = "armed"])
                             \* delay.reset(duration); delay.poll(cx)
                             ELSE BackoffFuturePoll([s2 EXCEPT !.delay = "elapsed"])
                                  \cup {[s2 EXCEPT !.delay = "armed",
                                                   !.state = "wait_timer"]}
              [] OTHER ->
                    {[s1 EXCEPT !.state = "done", !.result = o]}
        : o \in InnerOutcomes(s) }

\* with_backoff: a future with no delay and the caller's generator.
WithBackoff ==
    [state |-> "runnable", delay |-> "none", drawn |-> 0,
     result |-> NoResult, early |-> 0]

BInit ==
    /\ bf = WithBackoff
    /\ opLog = <<>>

\* The executor polls the BackoffFuture.
FuturePoll ==
    /\ bf.state = "runnable"
    /\ \E s \in BackoffFuturePoll(bf @@ [log |-> opLog]) :
          /\ bf' = [f \in DOMAIN bf |-> s[f]]
          /\ opLog' = s.log
    /\ UNCHANGED <<evars, tvars, xvars>>

\* A mutation of the timer: it elapses and wakes nobody.
FutureTimerFireNoWake ==
    /\ bf.delay = "armed"
    /\ bf' = [bf EXCEPT !.delay = "elapsed"]
    /\ UNCHANGED <<opLog, evars, tvars, xvars>>

\* The armed delay elapses; it wakes the task when the task waits on it.
FutureTimerFire ==
    /\ bf.delay = "armed"
    /\ bf' = [bf EXCEPT !.delay = "elapsed",
                        !.state = IF @ = "wait_timer" THEN "runnable" ELSE @]
    /\ UNCHANGED <<opLog, evars, tvars, xvars>>

\* The wrapped future wakes the task.
FutureInnerWake ==
    /\ bf.state = "wait_inner"
    /\ bf' = [bf EXCEPT !.state = "runnable"]
    /\ UNCHANGED <<opLog, evars, tvars, xvars>>

BNext ==
    \/ FuturePoll
    \/ FutureTimerFire
    \/ FutureInnerWake

\* BackoffState::poll, one call. nready: how many of the delays it arms are
\* already elapsed when it polls them (Poll::Ready), so that the loop goes on
\* to draw the next delay; the first delay that is not makes it break.
RECURSIVE BackoffStatePoll(_, _)
BackoffStatePoll(b, nready) ==
    IF NextBackoff(b.drawn) = "None"
    THEN [res |-> Err("Busy"), backoff |-> b]
    ELSE LET b1 == [b EXCEPT !.drawn = @ + 1, !.delay = "armed"]
         IN  IF nready > 0
             THEN BackoffStatePoll([b1 EXCEPT !.delay = "elapsed"], nready - 1)
             ELSE [res |-> Ok, backoff |-> b1]

\* BackoffState::new
BackoffStateNew == [drawn |-> 0, delay |-> "none"]

(* ------------------------- the native engine --------------------------- *)

\* What the engine may do on one sqlite3_step: run the statement, or refuse
\* with busy or with another status.  (sqlite3_step never returns SQLITE_OK.)
StepChoices == {"run", "SQLITE_BUSY", "SQLITE_ERROR", "SQLITE_SCHEMA"}

\* sqlite3_step. A run yields the next row of the result set or, past the
\* last one, completion; a step on a handle that has completed or failed
\* starts the statement over.  Busy leaves the handle where it is.
StepEngine(st, choice) ==
    IF choice = "run"
    THEN LET c == IF st.halted THEN 0 ELSE st.cursor
         IN  IF c < st.nrows
             THEN [code |-> "SQLITE_ROW",
                   stmt |-> [st EXCEPT !.cursor = c + 1, !.halted = FALSE]]
             ELSE [code |-> "SQLITE_DONE",
                   stmt |-> [st EXCEPT !.cursor = c, !.halted = TRUE]]
    ELSE IF choice = "SQLITE_BUSY"
    THEN [code |-> choice, stmt |-> st]
    ELSE [code |-> choice, stmt |-> [st EXCEPT !.halted = TRUE]]

\* sqlite3_reset
ResetEngine(st) == [st EXCEPT !.cursor = 0, !.halted = FALSE]

(* --------------------------- backend/sqlite.rs ------------------------- *)

\* check: a primary result code to Ok or a SqliteError.
Check(code) ==
    CASE code = "SQLITE_OK" -> "Ok"
      [] code = "SQLITE_ERROR" -> "Unknown"
      [] code = "SQLITE_BUSY" -> "Busy"
      [] code = "SQLITE_SCHEMA" -> "Schema"
      [] code = "SQLITE_RANGE" -> "Range"
      [] OTHER -> "Unknown"

\* impl From<SqliteError> for crate::Error: the kind of the error.
FromSqliteError(e) == IF e = "Schema" THEN "SchemaChanged" ELSE "Failure"

\* The three shapes of Result<Option<Rows>>.
ExecNone == [tag |-> "None", kind |-> "-", first_row |-> FALSE]

ExecRows(first_row) == [tag |-> "Rows", kind |-> "-", first_row |-> first_row]

ExecErr(kind) == [tag |-> "Err", kind |-> kind, first_row |-> FALSE]

\* A mutation of try_execute: completion always yields a stream.
TryExecuteAlwaysRows(code, column_count) ==
    CASE code = "SQLITE_DONE" -> ExecRows(FALSE)
      [] code = "SQLITE_ROW" -> ExecRows(TRUE)
      [] OTHER -> IF Check(code) = "Ok" THEN ExecNone
                  ELSE ExecErr(FromSqliteError(Check(code)))

\* Statement::try_execute, after its sqlite3_step returned code.
TryExecute(code, column_count) ==
    CASE code = "SQLITE_DONE" ->
            IF column_count > 0 THEN ExecRows(FALSE) ELSE ExecNone
      [] code = "SQLITE_ROW" -> ExecRows(TRUE)
      [] OTHER -> IF Check(code) = "Ok" THEN ExecNone
                  ELSE ExecErr(FromSqliteError(Check(code)))

\* Statement::bind_all over the caller's arguments: Ok(()), or the error of
\* the first one the engine refuses to bind (an index out of range, say).
BindAll(refused) ==
    IF refused THEN Err(FromSqliteError(Check("SQLITE_RANGE"))) ELSE Ok

\* Statement::execute: `self.bind_all(args);` with its Result dropped, then
\* BackoffFuture::poll around the one-shot block
\* `async move { self.try_execute(Vec::new()) }` (which binds nothing more
\* and steps) with a fresh ExponentialBackoff.
\* The block completes on its first poll; the loop's second poll of it,
\* after a busy outcome drew a delay, resumes a completed block: a panic.
StatementExecute(t) ==
    IF t.tag = "Err" /\ IsBusy(t.kind)
    THEN IF NextBackoff(0) = "None"
         THEN [status |-> "resolved", result |-> t]
         ELSE [status |-> "panicked", result |-> t]
    ELSE [status |-> "resolved", result |-> t]

\* No stream: execute resolved to none or to an error.
NoRows ==
    [state |-> "none", first_row |-> FALSE, column_count |-> 0,
     backoff |-> BackoffStateNew, waiting |-> FALSE]

\* Rows::empty
RowsEmpty(column_count) ==
    [state |-> "alive", first_row |-> FALSE, column_count |-> column_count,
     backoff |-> BackoffStateNew, waiting |-> FALSE]

\* A mutation of Rows::new: the row execute stepped to is not kept.
RowsNewNoFirstRow(column_count) ==
    [state |-> "alive", first_row |-> FALSE, column_count |-> column_count,
     backoff |-> BackoffStateNew, waiting |-> FALSE]

\* Rows::new
RowsNew(column_count) ==
    [state |-> "alive", first_row |-> TRUE, column_count |-> column_count,
     backoff |-> BackoffStateNew, waiting |-> FALSE]

\* An item of the stream: a decoded row (idx: its place in the result set),
\* an error, or the end of the sequence; at: the steps made when it came.
Item(kind, idx, err, at) == [kind |-> kind, idx |-> idx, err |-> err, at |-> at]

\* Rows::poll_next, one call, on s = [stmt, stepLog, rows, out].
RowsPollNext(s, choice, nready) ==
    IF s.rows.first_row
    THEN [s EXCEPT !.rows.first_row = FALSE,
                   !.rows.waiting = FALSE,
                   !.out = Append(@, Item("row", s.stmt.cursor, "-", Len(s.stepLog)))]
    ELSE LET r == StepEngine(s.stmt, choice)
             log == Append(s.stepLog, r.code)
             s1 == [s EXCEPT !.stmt = r.stmt, !.stepLog = log, !.rows.waiting = FALSE]
         IN  CASE r.code = "SQLITE_DONE" ->
                     [s1 EXCEPT !.out = Append(@, Item("end", 0, "-", Len(log)))]
               [] r.code = "SQLITE_ROW" ->
                     [s1 EXCEPT !.out =
                         Append(@, Item("row", r.stmt.cursor, "-", Len(log)))]
               [] r.code = "SQLITE_BUSY" ->
                     LET p == BackoffStatePoll(s.rows.backoff, nready)
                     IN  IF p.res = Ok
                         THEN [s1 EXCEPT !.rows.backoff = p.backoff,
                                         !.rows.waiting = TRUE]
                         ELSE [s1 EXCEPT !.rows.backoff = p.backoff,
                                         !.out = Append(@,
                                             Item("err", 0, p.res.kind, Len(log)))]
               [] OTHER ->
                     \* check(res)?
                     [s1 EXCEPT !.out = Append(@,
                         Item("err", 0, FromSqliteError(Check(r.code)), Len(log)))]

\* A prepared statement: its result columns and the rows it produces.
Statements ==
    {st \in [ncols : 0..MaxCols, nrows : 0..MaxRows, cursor : {0}, halted : {FALSE}] :
        st.ncols = 0 => st.nrows = 0}

ExecIdle == [status |-> "idle", result |-> ExecNone, step |-> "-", bind |-> NoResult]

\* Connection::prepare returned the statement; nothing was executed yet.
EInit ==
    /\ stmt \in Statements
    /\ stepLog = <<>>
    /\ exec = ExecIdle
    /\ rows = NoRows
    /\ out = <<>>
    /\ resets = 0
    /\ execCount = 0

\* A mutation of the signature: the stream borrows nothing.
BorrowedNever(r) == FALSE

\* Connection::execute takes `&'a mut self` and `&'a Self::Statement` and
\* returns Rows<'a, R>: the connection stays mutably borrowed for as long as
\* the stream lives, and no other call can be made on it.
Borrowed(r) == r.state = "alive"

\* Connection::execute awaited: Statement::execute, then crate::Rows::new
\* around the backend stream.
Execute ==
    /\ ~Borrowed(rows)
    /\ exec.status # "panicked"
    /\ execCount < MaxExecs
    /\ \E choice \in StepChoices, refused \in BOOLEAN :
          LET b == BindAll(refused)
              r == StepEngine(stmt, choice)
              e == StatementExecute(TryExecute(r.code, stmt.ncols))
          IN  /\ stmt' = r.stmt
              /\ stepLog' = <<r.code>>
              /\ exec' = [status |-> e.status, result |-> e.result,
                          step |-> r.code, bind |-> b]
              /\ rows' = IF e.status = "resolved" /\ e.result.tag = "Rows"
                         THEN IF e.result.first_row
                              THEN RowsNew(stmt.ncols)
                              ELSE RowsEmpty(stmt.ncols)
                         ELSE NoRows
    /\ out' = <<>>
    /\ resets' = 0
    /\ execCount' = execCount + 1
    /\ UNCHANGED <<bvars, tvars, xvars>>

\* The consumer polls the stream: at once, or once the armed delay woke it.
PollNext ==
    /\ rows.state = "alive"
    /\ ~rows.waiting \/ rows.backoff.delay = "elapsed"
    /\ Len(stepLog) < MaxSteps
    /\ \E choice \in StepChoices, nready \in 0..ScheduleLen :
          LET s == RowsPollNext([stmt |-> stmt, stepLog |-> stepLog,
                                 rows |-> rows, out |-> out], choice, nready)
          IN  /\ stmt' = s.stmt
              /\ stepLog' = s.stepLog
              /\ rows' = s.rows
              /\ out' = s.out
    /\ UNCHANGED <<exec, resets, execCount, bvars, tvars, xvars>>

\* The delay armed by the stream's BackoffState elapses.
RowsTimerFire ==
    /\ rows.state = "alive"
    /\ rows.backoff.delay = "armed"
    /\ rows' = [rows EXCEPT !.backoff.delay = "elapsed"]
    /\ UNCHANGED <<stmt, stepLog, exec, out, resets, execCount, bvars, tvars, xvars>>

\* A mutation of Drop for Rows: the handle is left as it is.
DropRowsNoReset ==
    /\ rows.state = "alive"
    /\ rows' = [rows EXCEPT !.state = "dropped"]
    /\ UNCHANGED <<stmt, resets, stepLog, exec, out, execCount, bvars, tvars, xvars>>

\* Drop for Rows: sqlite3_reset on the statement handle.
DropRows ==
    /\ rows.state = "alive"
    /\ rows' = [rows EXCEPT !.state = "dropped"]
    /\ stmt' = ResetEngine(stmt)
    /\ resets' = resets + 1
    /\ UNCHANGED <<stepLog, exec, out, execCount, bvars, tvars, xvars>>

ENext ==
    \/ Execute
    \/ PollNext
    \/ RowsTimerFire
    \/ DropRows

(* ------------------- the native engine: transactions ------------------- *)

\* Whether the engine runs the statement: BEGIN needs no open transaction,
\* COMMIT and ROLLBACK need one.
EngineAccepts(d, sql) ==
    CASE sql = "BEGIN" -> ~d.inTxn
      [] sql \in {"COMMIT", "ROLLBACK"} -> d.inTxn
      [] OTHER -> TRUE

\* The effect of a statement the engine ran to completion.
EngineApply(d, sql, id) ==
    CASE sql = "BEGIN" -> [d EXCEPT !.saved = d.rows, !.inTxn = TRUE]
      [] sql = "COMMIT" -> [d EXCEPT !.saved = {}, !.inTxn = FALSE]
      [] sql = "ROLLBACK" -> [d EXCEPT !.rows = d.saved, !.saved = {}, !.inTxn = FALSE]
      [] sql = "INSERT" -> [d EXCEPT !.rows = @ \cup {id}]
      [] OTHER -> d

(* ----------------------------- transaction.rs -------------------------- *)

\* Connection::execute::<()> awaited on a statement with no result column:
\* one step through Statement::execute.
ConnExecute(d, sql, id, choice) ==
    LET code == IF choice = "run"
                THEN IF EngineAccepts(d, sql) THEN "SQLITE_DONE" ELSE "SQLITE_ERROR"
                ELSE choice
        e == StatementExecute(TryExecute(code, 0))
    IN  [ok |-> e.status = "resolved" /\ e.result.tag # "Err",
         db |-> IF code = "SQLITE_DONE" THEN EngineApply(d, sql, id) ELSE d]

\* One call made for a Transaction: by begin, commit, rollback or drop.
Call(by, op, sql, ok) == [by |-> by, op |-> op, sql |-> sql, ok |-> ok]

\* The texts begin prepares: start, resolve-success, resolve-failure.
BeginStatements == <<"BEGIN", "COMMIT", "ROLLBACK">>

NoTxn == [state |-> "none", done |-> FALSE, end |-> "None", rollback |-> "None"]

\* A mutation of commit: it executes the rollback statement.
TxnCommitRollsBack(s, choice) ==
    LET x == ConnExecute(s.db, s.txn.rollback, 0, choice)
    IN  [txn |-> [s.txn EXCEPT !.done = TRUE, !.rollback = "None"],
         db |-> x.db,
         log |-> Append(s.log, Call("commit", "execute", s.txn.rollback, x.ok)),
         result |-> IF x.ok THEN "Ok" ELSE "Err"]

\* Transaction::commit, up to its return; s = [txn, db, log, result].
TxnCommit(s, choice) ==
    IF ~s.txn.done
    THEN LET t == [s.txn EXCEPT !.done = TRUE, !.end = "None"]
         IN  IF s.txn.end # "None"
             THEN LET x == ConnExecute(s.db, s.txn.end, 0, choice)
                  IN  [txn |-> t,
                       db |-> x.db,
                       log |-> Append(s.log, Call("commit", "execute", s.txn.end, x.ok)),
                       result |-> IF x.ok THEN "Ok" ELSE "Err"]
             ELSE [s EXCEPT !.txn = t, !.result = "Ok"]
    ELSE [s EXCEPT !.result = "Ok"]

\* Transaction::rollback, up to its return.
TxnRollback(s, choice) ==
    IF ~s.txn.done
    THEN LET t == [s.txn EXCEPT !.done = TRUE, !.rollback = "None"]
         IN  IF s.txn.rollback # "None"
             THEN LET x == ConnExecute(s.db, s.txn.rollback, 0, choice)
                  IN  [txn |-> t,
                       db |-> x.db,
                       log |-> Append(s.log,
                                  Call("rollback", "execute", s.txn.rollback, x.ok)),
                       result |-> IF x.ok THEN "Ok" ELSE "Err"]
             ELSE [s EXCEPT !.txn = t, !.result = "Ok"]
    ELSE [s EXCEPT !.result = "Ok"]

\* A mutation of drop: an unresolved Transaction is committed.
TxnDropCommits(s, choice) ==
    IF ~s.txn.done /\ s.txn.end # "None"
    THEN LET x == ConnExecute(s.db, s.txn.end, 0, choice)
         IN  [s EXCEPT !.txn.state = "gone", !.txn.end = "None", !.db = x.db,
                       !.log = Append(@, Call("drop", "execute", s.txn.end, x.ok))]
    ELSE [s EXCEPT !.txn.state = "gone"]

\* A mutation of drop: the done flag is not consulted.
TxnDropUnguarded(s, choice) ==
    IF s.txn.rollback # "None"
    THEN LET x == ConnExecute(s.db, s.txn.rollback, 0, choice)
         IN  [s EXCEPT !.txn.state = "gone", !.txn.rollback = "None", !.db = x.db,
                       !.log = Append(@, Call("drop", "execute", s.txn.rollback, x.ok))]
    ELSE [s EXCEPT !.txn.state = "gone"]

\* Drop for Transaction: block_on the rollback statement unless done; the
\* result of executing it is discarded.
TxnDrop(s, choice) ==
    IF ~s.txn.done /\ s.txn.rollback # "None"
    THEN LET x == ConnExecute(s.db, s.txn.rollback, 0, choice)
         IN  [s EXCEPT !.txn.state = "gone", !.txn.rollback = "None", !.db = x.db,
                       !.log = Append(@, Call("drop", "execute", s.txn.rollback, x.ok))]
    ELSE [s EXCEPT !.txn.state = "gone"]

\* A mutation of begin: the start statement is executed as soon as it is
\* prepared, before the two resolve statements are.
TxnBeginExecutesFirst(d, failing, choice) ==
    IF failing = 1
    THEN [txn |-> NoTxn, db |-> d,
          log |-> <<Call("begin", "prepare", BeginStatements[1], FALSE)>>]
    ELSE LET x == ConnExecute(d, BeginStatements[1], 0, choice)
             n == IF failing = 0 THEN 3 ELSE failing
             rest == [k \in 1..(n - 1) |->
                         Call("begin", "prepare", BeginStatements[k + 1],
                              k + 1 # failing)]
         IN  [txn |-> IF x.ok /\ failing = 0
                      THEN [state |-> "alive", done |-> FALSE,
                            end |-> BeginStatements[2],
                            rollback |-> BeginStatements[3]]
                      ELSE NoTxn,
              db |-> x.db,
              log |-> <<Call("begin", "prepare", BeginStatements[1], TRUE),
                        Call("begin", "execute", BeginStatements[1], x.ok)>>
                          \o rest]

\* TransactionCapable::begin. failing: which of its three preparations the
\* engine refuses (0: none); choice: what the engine does on the start step.
TxnBegin(d, failing, choice) ==
    LET n == IF failing = 0 THEN 3 ELSE failing
        prepared == [k \in 1..n |->
                        Call("begin", "prepare", BeginStatements[k], k # failing)]
    IN  IF failing # 0
        THEN [txn |-> NoTxn, db |-> d, log |-> prepared]
        ELSE LET x == ConnExecute(d, BeginStatements[1], 0, choice)
             IN  [txn |-> IF x.ok
                          THEN [state |-> "alive", done |-> FALSE,
                                end |-> BeginStatements[2],
                                rollback |-> BeginStatements[3]]
                          ELSE NoTxn,
                  db |-> x.db,
                  log |-> Append(prepared,
                                 Call("begin", "execute", BeginStatements[1], x.ok))]

NoScope == [how |-> "none", result |-> "-", snap |-> {}, ins |-> {}, after |-> {}]

NoQuery == [valid |-> FALSE, rows |-> {}]

TInit ==
    /\ db = [rows |-> {}, saved |-> {}, inTxn |-> FALSE]
    /\ txn = NoTxn
    /\ txnLog = <<>>
    /\ scope = NoScope
    /\ lastQuery = NoQuery
    /\ counts = [inserts |-> 0, txns |-> 0]
    /\ next_savepoint = 0
    /\ spLog = <<>>

\* The caller awaits begin() on the connection.
Begin ==
    /\ txn.state # "alive"
    /\ counts.txns < MaxTxns
    /\ \E failing \in 0..3, choice \in StepChoices :
          LET s == TxnBegin(db, failing, choice)
          IN  /\ txn' = s.txn
              /\ db' = s.db
              /\ txnLog' = s.log
              /\ scope' = [NoScope EXCEPT !.snap = IF s.txn.state = "alive"
                                                   THEN db.rows ELSE {}]
    /\ lastQuery' = NoQuery
    /\ counts' = [counts EXCEPT !.txns = @ + 1]
    /\ UNCHANGED <<pvars, bvars, evars, xvars>>

\* The caller awaits commit(self): the Transaction is dropped on return.
Commit ==
    /\ txn.state = "alive"
    /\ \E c1 \in StepChoices, c2 \in StepChoices :
          LET s == TxnDrop(TxnCommit([txn |-> txn, db |-> db, log |-> txnLog,
                                      result |-> "-"], c1), c2)
          IN  /\ txn' = s.txn
              /\ db' = s.db
              /\ txnLog' = s.log
              /\ scope' = [scope EXCEPT !.how = "commit", !.result = s.result]
    /\ lastQuery' = NoQuery
    /\ UNCHANGED <<counts, pvars, bvars, evars, xvars>>

\* The caller awaits rollback(self): the Transaction is dropped on return.
Rollback ==
    /\ txn.state = "alive"
    /\ \E c1 \in StepChoices, c2 \in StepChoices :
          LET s == TxnDrop(TxnRollback([txn |-> txn, db |-> db, log |-> txnLog,
                                        result |-> "-"], c1), c2)
          IN  /\ txn' = s.txn
              /\ db' = s.db
              /\ txnLog' = s.log
              /\ scope' = [scope EXCEPT !.how = "rollback", !.result = s.result]
    /\ lastQuery' = NoQuery
    /\ UNCHANGED <<counts, pvars, bvars, evars, xvars>>

\* The Transaction goes out of scope with neither call made.
DropTxn ==
    /\ txn.state = "alive"
    /\ \E c \in StepChoices :
          LET s == TxnDrop([txn |-> txn, db |-> db, log |-> txnLog,
                            result |-> "-"], c)
          IN  /\ txn' = s.txn
              /\ db' = s.db
              /\ txnLog' = s.log
    /\ scope' = [scope EXCEPT !.how = "drop"]
    /\ lastQuery' = NoQuery
    /\ UNCHANGED <<counts, pvars, bvars, evars, xvars>>

\* An INSERT executed through the Transaction (which hands it to its
\* connection) or, with no Transaction alive, through the connection.
Insert ==
    /\ counts.inserts < MaxInserts
    /\ \E choice \in StepChoices :
          LET id == counts.inserts + 1
              x == ConnExecute(db, "INSERT", id, choice)
          IN  /\ db' = x.db
              /\ scope' = IF ~x.ok THEN scope
                          ELSE IF txn.state = "alive"
                               THEN [scope EXCEPT !.ins = @ \cup {id}]
                               ELSE [scope EXCEPT !.after = @ \cup {id}]
    /\ counts' = [counts EXCEPT !.inserts = @ + 1]
    /\ lastQuery' = NoQuery
    /\ UNCHANGED <<txn, txnLog, pvars, bvars, evars, xvars>>

\* A SELECT of the table, executed the same way and collected.
Query ==
    /\ \E choice \in StepChoices :
          lastQuery' = IF choice = "run"
                       THEN [valid |-> TRUE, rows |-> db.rows]
                       ELSE NoQuery
    /\ UNCHANGED <<db, txn, txnLog, scope, counts, pvars, bvars, evars, xvars>>

(* ---------------------- transaction.rs: savepoints --------------------- *)

\* An SQL text of the savepoint family: its keyword and the name after it
\* (<<>>: no name follows).
Text(verb, name) == [verb |-> verb, name |-> name]

\* The caller's Option<String>: no name, or a name of its own.
NoName == <<>>

CallerNames == {<<"sp">>}

\* A mutation of the counter: it is read and left as it is.
AnonymousSavepointNameStuck(n) == [name |-> <<"anon", n>>, next_savepoint |-> n]

\* SavepointCapable for Connection: anonymous_savepoint_name. The name is
\* "anon" followed by the counter, which is then incremented (a usize: it
\* does not come back to a value within any reachable number of calls).
AnonymousSavepointName(n) == [name |-> <<"anon", n>>, next_savepoint |-> n + 1]

\* The engine compiles SAVEPOINT, RELEASE and ROLLBACK TO only with the
\* savepoint's name after the keyword.
EngineCompiles(text) == text.name # <<>>

\* SavepointCapable::savepoint on the connection. The three texts are
\* prepared in turn, each `?` returning at the first refusal; then the
\* start statement is executed.
ConnSavepoint(d, n, given, choice) ==
    LET a == IF given = NoName
             THEN AnonymousSavepointName(n)
             ELSE [name |-> given, next_savepoint |-> n]
        texts == <<Text("SAVEPOINT", <<>>),
                   Text("RELEASE", a.name),
                   Text("ROLLBACK TO", <<>>)>>
        failing == IF \E k \in 1..3 : ~EngineCompiles(texts[k])
                   THEN CHOOSE k \in 1..3 :
                            /\ ~EngineCompiles(texts[k])
                            /\ \A j \in 1..(k - 1) : EngineCompiles(texts[j])
                   ELSE 0
        prepared == [k \in 1..(IF failing = 0 THEN 3 ELSE failing) |->
                        [text |-> texts[k], ok |-> k # failing]]
        x == ConnExecute(d, "SAVEPOINT", 0, choice)
        begun == failing = 0 /\ x.ok
    IN  [next_savepoint |-> a.next_savepoint,
         db |-> IF failing = 0 THEN x.db ELSE d,
         call |-> [given |-> given,
                   name |-> a.name,
                   prepared |-> prepared,
                   executed |-> failing = 0,
                   result |-> IF begun THEN "Ok" ELSE "Err",
                   end |-> IF begun THEN texts[2] ELSE Text("-", <<>>),
                   rollback |-> IF begun THEN texts[3] ELSE Text("-", <<>>)]]

\* The result of savepoint on the connection, seen from a Transaction:
\* what became of the parent, the child built, and the engine calls made
\* by the drop of the temporary inner Transaction.
Nested(s, parent, child, innerDrop) ==
    [next_savepoint |-> s.next_savepoint, db |-> s.db, call |-> s.call,
     parent |-> parent, child |-> child, innerDrop |-> innerDrop]

\* A mutation of the nested savepoint: the parent is marked done.
TxnSavepointMarksParentDone(parent, d, n, given, choice) ==
    Nested(ConnSavepoint(d, n, given, choice),
           [parent EXCEPT !.done = TRUE], NoTxn, <<>>)

\* SavepointCapable for Transaction: savepoint. The Transaction asks its
\* connection for the savepoint (an error is handed on with `?`), swaps
\* the two resolve statements out of the Transaction it gets, lets that one
\* drop at the end of the block, and builds the child around itself.
TxnSavepoint(parent, d, n, given, choice) ==
    LET s == ConnSavepoint(d, n, given, choice)
    IN  IF s.call.result = "Err"
        THEN Nested(s, parent, NoTxn, <<>>)
        ELSE LET trans == [state |-> "alive", done |-> FALSE,
                           end |-> "None", rollback |-> "None"]
                 dropped == TxnDrop([txn |-> trans, db |-> s.db, log |-> <<>>,
                                     result |-> "-"], choice)
             IN  Nested([s EXCEPT !.db = dropped.db], parent,
                        [state |-> "alive", done |-> FALSE,
                         end |-> s.call.end, rollback |-> s.call.rollback],
                        dropped.log)

\* The caller awaits savepoint(name): on the Transaction while one is alive
\* (it holds the connection), on the connection otherwise.
Savepoint ==
    /\ Len(spLog) < MaxSavepoints
    /\ \E given \in {NoName} \cup CallerNames, choice \in StepChoices :
          LET s == IF txn.state = "alive"
                   THEN TxnSavepoint(txn, db, next_savepoint, given, choice)
                   ELSE Nested(ConnSavepoint(db, next_savepoint, given, choice),
                               txn, NoTxn, <<>>)
              via == IF txn.state = "alive" THEN "transaction" ELSE "connection"
          IN  /\ next_savepoint' = s.next_savepoint
              /\ db' = s.db
              /\ txn' = s.parent
              /\ spLog' = Append(spLog,
                      s.call @@ [via |-> via, child |-> s.child,
                                 innerDrop |-> s.innerDrop])
    /\ UNCHANGED <<txnLog, scope, lastQuery, counts, bvars, evars, xvars>>

TNext ==
    \/ Begin
    \/ Commit
    \/ Rollback
    \/ DropTxn
    \/ Insert
    \/ Query
    \/ Savepoint

(* ------------------------------ parsing.rs ----------------------------- *)

\* The characters that matter to the splitter, and one that does not.
SplitChars == {";", "'", "(", ")", "a"}

\* The strings of at most n characters of A.
Strings(A, n) == UNION {[1..k -> A] : k \in 0..n}

\* Option<&str>
Some(str) == [some |-> TRUE, str |-> str]

None == [some |-> FALSE, str |-> <<>>]

\* self.state.pop()
Pop(state) == SubSeq(state, 1, Len(state) - 1)

\* sql.get_unchecked(from..to), with the byte offsets of the code.
Slice(s, from, to) == SubSeq(s, from + 1, to)

\* split_statement_list
SplitStatementList == [chars |-> 0, offset |-> 0, state |-> <<>>]

\* A mutation of the group context: an inner parenthesis opens no group.
OnGroupFlat(it, c) ==
    CASE c = ")" -> [it EXCEPT !.state = Pop(@)]
      [] c = "'" -> [it EXCEPT !.state = Append(@, "String")]
      [] OTHER -> it

\* Some(State::Group) => match c
OnGroup(it, c) ==
    CASE c = ")" -> [it EXCEPT !.state = Pop(@)]
      [] c = "(" -> [it EXCEPT !.state = Append(@, "Group")]
      [] c = "'" -> [it EXCEPT !.state = Append(@, "String")]
      [] OTHER -> it

\* Some(State::String) => match c, with the peek at the next character.
OnString(s, it, c) ==
    IF c = "'"
    THEN IF it.chars < Len(s) /\ s[it.chars + 1] = "'"
         THEN [it EXCEPT !.chars = @ + 1]
         ELSE [it EXCEPT !.state = Pop(@)]
    ELSE it

\* A mutation of the end of the scan: what follows the last cut is lost.
RemainderNever(s, it) == [item |-> None, iter |-> it]

\* After the scan: the text past the last cut, if there is any.
Remainder(s, it) ==
    IF it.offset < Len(s)
    THEN [item |-> Some(Slice(s, it.offset, Len(s))),
          iter |-> [it EXCEPT !.offset = Len(s)]]
    ELSE [item |-> None, iter |-> it]

\* Statements::next, one call: what it returns and the iterator it leaves.
RECURSIVE StatementsNext(_, _)
StatementsNext(s, it) ==
    IF it.chars < Len(s)
    THEN LET i == it.chars
             c == s[i + 1]
             it1 == [it EXCEPT !.chars = @ + 1]
         IN  IF it.state = <<>>
             THEN CASE c = ";" ->
                         [item |-> Some(Slice(s, it.offset, i)),
                          iter |-> [it1 EXCEPT !.offset = i + 1]]
                    [] c = "'" ->
                         StatementsNext(s, [it1 EXCEPT !.state = Append(@, "String")])
                    [] c = "(" ->
                         StatementsNext(s, [it1 EXCEPT !.state = Append(@, "Group")])
                    [] OTHER -> StatementsNext(s, it1)
             ELSE IF it.state[Len(it.state)] = "Group"
             THEN StatementsNext(s, OnGroup(it1, c))
             ELSE StatementsNext(s, OnString(s, it1, c))
    ELSE Remainder(s, it)

\* Every segment of s, as a loop over the iterator collects them.
RECURSIVE Collect(_, _)
Collect(s, it) ==
    LET r == StatementsNext(s, it)
    IN  IF r.item.some THEN <<r.item.str>> \o Collect(s, r.iter) ELSE <<>>

SInit ==
    /\ script \in Strings(SplitChars, MaxLen)
    /\ iter = SplitStatementList
    /\ segs = <<>>

\* The caller asks the iterator for the next segment; it may ask once more
\* after the iterator has ended.
IterNext ==
    /\ Cardinality({k \in 1..Len(segs) : ~segs[k].some}) < 2
    /\ LET r == StatementsNext(script, iter)
       IN  /\ iter' = r.iter
           /\ segs' = Append(segs, r.item)
    /\ UNCHANGED <<script, run, value, decoded, bvars, evars, tvars>>

SNext == IterNext

(* -------------------------------- lib.rs ------------------------------- *)

\* The characters of a script: the separator, a letter and a blank.
ScriptChars == {";", "a", " "}

Blank(text) == \A i \in 1..Len(text) : text[i] = " "

\* sqlite::Connection::prepare. The address of the first byte is taken with
\* `sql.as_bytes()[0]`, which panics on the empty string; the engine
\* compiles a blank text to no statement (a null handle), and refuses some
\* of the others.
Prepare(text, refused) ==
    CASE text = <<>> -> "panic"
      [] Blank(text) -> "none"
      [] refused -> "err"
      [] OTHER -> "some"

\* One call made for a script: prepare or execute, on its k-th segment.
ScriptCall(op, k, text, res) == [op |-> op, seg |-> k, text |-> text, res |-> res]

NoRun ==
    [op |-> "none", status |-> "idle", seen |-> 0, calls |-> <<>>,
     statements |-> <<>>, error |-> "-"]

\* Connection::prepare_list, the loop from iterator it on.
\* refuse: the segment whose preparation the engine refuses (0: none).
RECURSIVE PrepareList(_, _, _, _)
PrepareList(s, it, r, refuse) ==
    LET n == StatementsNext(s, it)
    IN  IF ~n.item.some
        THEN [r EXCEPT !.status = "ok"]
        ELSE LET k == r.seen + 1
                 p == Prepare(n.item.str, k = refuse)
                 r1 == [r EXCEPT !.seen = k,
                                 !.calls = Append(@,
                                     ScriptCall("prepare", k, n.item.str, p))]
             IN  CASE p = "panic" ->
                         [r1 EXCEPT !.status = "panic", !.statements = <<>>]
                   [] p = "err" ->
                         [r1 EXCEPT !.status = "err", !.statements = <<>>,
                                    !.error = FromSqliteError(Check("SQLITE_ERROR"))]
                   [] p = "none" -> PrepareList(s, n.iter, r1, refuse)
                   [] OTHER ->
                         PrepareList(s, n.iter,
                             [r1 EXCEPT !.statements = Append(@, n.item.str)], refuse)

\* Connection::execute_script, the loop from iterator it on.
\* fail, code: the segment whose step the engine refuses, and with what.
RECURSIVE ExecuteScript(_, _, _, _, _, _)
ExecuteScript(s, it, r, refuse, fail, code) ==
    LET n == StatementsNext(s, it)
    IN  IF ~n.item.some
        THEN [r EXCEPT !.status = "ok"]
        ELSE LET k == r.seen + 1
                 p == Prepare(n.item.str, k = refuse)
                 r1 == [r EXCEPT !.seen = k,
                                 !.calls = Append(@,
                                     ScriptCall("prepare", k, n.item.str, p))]
             IN  CASE p = "panic" -> [r1 EXCEPT !.status = "panic"]
                   [] p = "err" ->
                         [r1 EXCEPT !.status = "err",
                                    !.error = FromSqliteError(Check("SQLITE_ERROR"))]
                   [] p = "none" -> ExecuteScript(s, n.iter, r1, refuse, fail, code)
                   [] OTHER ->
                         LET step == IF k = fail THEN code ELSE "SQLITE_DONE"
                             e == StatementExecute(TryExecute(step, 0))
                             ok == e.status = "resolved" /\ e.result.tag # "Err"
                             r2 == [r1 EXCEPT !.calls = Append(@,
                                       ScriptCall("execute", k, n.item.str,
                                                  IF ok THEN "ok" ELSE "err"))]
                         IN  IF ok
                             THEN ExecuteScript(s, n.iter, r2, refuse, fail, code)
                             ELSE [r2 EXCEPT !.status = "err",
                                             !.error = e.result.kind]

RInit ==
    /\ script \in Strings(ScriptChars, MaxScriptLen)
    /\ run = NoRun

\* The caller calls prepare_list(sql).
CallPrepareList ==
    /\ run.status = "idle"
    /\ \E refuse \in 0..MaxScriptLen :
          run' = PrepareList(script, SplitStatementList,
                             [NoRun EXCEPT !.op = "prepare_list"], refuse)
    /\ UNCHANGED <<script, iter, segs, value, decoded, bvars, evars, tvars>>

\* The caller awaits execute_script(sql).
CallExecuteScript ==
    /\ run.status = "idle"
    /\ \E refuse \in 0..MaxScriptLen, fail \in 0..MaxScriptLen,
          code \in StepChoices \ {"run"} :
          run' = ExecuteScript(script, SplitStatementList,
                               [NoRun EXCEPT !.op = "execute_script"],
                               refuse, fail, code)
    /\ UNCHANGED <<script, iter, segs, value, decoded, bvars, evars, tvars>>

RNext ==
    \/ CallPrepareList
    \/ CallExecuteScript

(* ------------------------------- value.rs ------------------------------ *)

\* An i64 is held as its four 16-bit limbs in two's complement, the least
\* significant first; these are the values a limb takes here.
LimbValues == {0, 1, 32767, 32768, 65535}

\* Value: the Integer variant with its i64, and the other variants.
Values ==
    [tag : {"Integer"}, limbs : [1..4 -> LimbValues]]
        \cup [tag : {"Float", "Text", "Blob", "Null"}, limbs : {<<0, 0, 0, 0>>}]

\* i >= 0
NonNegative(limbs) == limbs[4] < 32768

\* `i as u32`, `i as i32`: the low 32 bits, whatever the others are.
AsThirtyTwoBits(limbs) == <<limbs[1], limbs[2]>>

Panicked == [status |-> "panic", bits |-> <<0, 0>>]

Returned(bits) == [status |-> "value", bits |-> bits]

\* impl FromValue for u32
FromValueU32(v) ==
    IF v.tag = "Integer" /\ NonNegative(v.limbs)
    THEN Returned(AsThirtyTwoBits(v.limbs))
    ELSE Panicked

\* impl FromValue for i32
FromValueI32(v) ==
    IF v.tag = "Integer"
    THEN Returned(AsThirtyTwoBits(v.limbs))
    ELSE Panicked

NotDecoded == [status |-> "none", bits |-> <<0, 0>>]

DInit ==
    /\ value \in [v : Values, target : {"u32", "i32"}]
    /\ decoded = NotDecoded

\* The row is decoded: FromValue::from on the column value.
Decode ==
    /\ decoded = NotDecoded
    /\ decoded' = IF value.target = "u32"
                  THEN FromValueU32(value.v)
                  ELSE FromValueI32(value.v)
    /\ UNCHANGED <<value, script, iter, segs, run, bvars, evars, tvars>>

DNext == Decode

\* The subsystems a specification leaves alone.
BIdle ==
    /\ bf = WithBackoff
    /\ opLog = <<>>

EIdle ==
    /\ stmt = [ncols |-> 0, nrows |-> 0, cursor |-> 0, halted |-> FALSE]
    /\ stepLog = <<>>
    /\ exec = ExecIdle
    /\ rows = NoRows
    /\ out = <<>>
    /\ resets = 0
    /\ execCount = 0

TIdle == TInit

XIdle ==
    /\ script = <<>>
    /\ iter = SplitStatementList
    /\ segs = <<>>
    /\ run = NoRun
    /\ value = [v |-> [tag |-> "Null", limbs |-> <<0, 0, 0, 0>>], target |-> "u32"]
    /\ decoded = NotDecoded

InitBackoff == BInit /\ EIdle /\ TIdle /\ XIdle

InitExec == EInit /\ BIdle /\ TIdle /\ XIdle

InitTxn == TInit /\ BIdle /\ EIdle /\ XIdle

InitSplit ==
    /\ SInit
    /\ run = NoRun
    /\ value = [v |-> [tag |-> "Null", limbs |-> <<0, 0, 0, 0>>], target |-> "u32"]
    /\ decoded = NotDecoded
    /\ BIdle /\ EIdle /\ TIdle

InitScript ==
    /\ RInit
    /\ iter = SplitStatementList
    /\ segs = <<>>
    /\ value = [v |-> [tag |-> "Null", limbs |-> <<0, 0, 0, 0>>], target |-> "u32"]
    /\ decoded = NotDecoded
    /\ BIdle /\ EIdle /\ TIdle

InitDecode ==
    /\ DInit
    /\ script = <<>>
    /\ iter = SplitStatementList
    /\ segs = <<>>
    /\ run = NoRun
    /\ BIdle /\ EIdle /\ TIdle

SpecBackoff == InitBackoff /\ [][BNext]_vars

\* The executor polls a task that was woken, every armed delay elapses,
\* and a wrapped operation that is pending wakes its task.
SpecBackoffFair ==
    /\ InitBackoff
    /\ [][BNext]_vars
    /\ WF_vars(FuturePoll)
    /\ WF_vars(FutureTimerFire)
    /\ WF_vars(FutureInnerWake)

SpecExec == InitExec /\ [][ENext]_vars

SpecTxn == InitTxn /\ [][TNext]_vars

SpecSplit == InitSplit /\ [][SNext]_vars

SpecScript == InitScript /\ [][RNext]_vars

SpecDecode == InitDecode /\ [][DNext]_vars

(* ------------------------------ claims --------------------------------- *)

\* Every step poll_next made up to step n was busy (step 1 is execute's).
AllBusyUpTo(n) == \A j \in 2..n : stepLog[j] = "SQLITE_BUSY"

BusyPolls == Cardinality({i \in 1..Len(opLog) : opLog[i] = Err("Busy")})

\* C1: when the engine reports busy on the step made by execute and the
\* schedule has delays left, execute does not fail; an error that a busy
\* step causes has kind Busy and comes only once the schedule is exhausted.
C1_BusyAbsorbedByExecute ==
    (exec.status # "idle" /\ exec.step = "SQLITE_BUSY") =>
        /\ NextBackoff(0) = "Some" => exec.result.tag # "Err"
        /\ exec.result.tag = "Err" =>
                (exec.result.kind = "Busy" /\ NextBackoff(0) = "None")

\* C2 (direct poll form, as the row stream uses it): when every step of the
\* stream reports busy, the Busy error comes after exactly ScheduleLen
\* retries of the first busy step.
C2_ExactlyNRetries ==
    \A i \in 1..Len(out) :
        ( /\ out[i].kind = "err" /\ out[i].err = "Busy"
          /\ \A j \in 1..(i - 1) : out[j].kind # "err"
          /\ AllBusyUpTo(out[i].at) )
        => out[i].at - 1 = ScheduleLen + 1

\* C2 (future-combinator form): an operation that is busy on every poll is
\* polled ScheduleLen + 1 times, never more, and then fails with Busy.
C2_FutureFormExactlyN ==
    (\A i \in 1..Len(opLog) : opLog[i] = Err("Busy")) =>
        /\ Len(opLog) <= ScheduleLen + 1
        /\ bf.state = "done" => (Len(opLog) = ScheduleLen + 1 /\ bf.result = Err("Busy"))
        /\ Len(opLog) = ScheduleLen + 1 => bf.state = "done"

\* C3: a statement whose steps are Busy, Row, Done yields one decoded row and
\* then the end of the sequence; the busy step surfaces no error.
C3_BusyRowDone ==
    (Len(stepLog) >= 1 /\ stepLog[1] = "SQLITE_BUSY") =>
        /\ exec.result.tag # "Err"
        /\ \A i \in 1..Len(out) : out[i].kind # "err"
        /\ stepLog = <<"SQLITE_BUSY", "SQLITE_ROW", "SQLITE_DONE">> =>
                (/\ Len(out) = 2
                 /\ out[1].kind = "row" /\ out[1].idx = 1
                 /\ out[2].kind = "end")

C5_NonBusyIsFinal ==
    \A i \in 1..Len(opLog) :
        (opLog[i].tag = "Ok" \/ (opLog[i].tag = "Err" /\ opLog[i].kind # "Busy")) =>
            /\ i = Len(opLog)
            /\ bf.state = "done"
            /\ bf.result = opLog[i]
            /\ bf.drawn = BusyPolls

C5_Witness ==
    /\ bf.state = "done"
    /\ bf.result = Err("SchemaChanged")
    /\ bf.drawn = 1

\* C10: a stream resets its statement handle when it is dropped and at no
\* other time, once, however far it was consumed; the handle is then at its
\* start, and the next execution steps the statement from its first row.
C10_ResetOnceOnDrop ==
    /\ rows.state = "alive" => resets = 0
    /\ rows.state = "dropped" =>
            (resets = 1 /\ stmt.cursor = 0 /\ ~stmt.halted)
    /\ (rows.state = "alive" /\ stepLog = <<"SQLITE_ROW">>) => stmt.cursor = 1

C10_Witness ==
    /\ rows.state = "dropped"
    /\ resets = 1
    /\ stmt.nrows = 2
    /\ Len(out) = 1
    /\ out[1].kind = "row"

ResolveCalls == SelectSeq(txnLog, LAMBDA c : c.by # "begin")

\* C6: a query inside the Transaction sees the rows inserted through it; a
\* query after a rollback sees the rows that existed at begin (and what was
\* inserted since), a query after a commit sees the inserted rows as well.
C6_CommitRollbackVisibility ==
    lastQuery.valid =>
        /\ txn.state = "alive" => lastQuery.rows = scope.snap \cup scope.ins
        /\ (txn.state = "gone" /\ scope.how = "rollback" /\ scope.result = "Ok") =>
                lastQuery.rows = scope.snap \cup scope.after
        /\ (txn.state = "gone" /\ scope.how = "commit" /\ scope.result = "Ok") =>
                lastQuery.rows = scope.snap \cup scope.ins \cup scope.after

C6_Witness ==
    /\ lastQuery.valid
    /\ txn.state = "gone"
    /\ scope.how = "rollback"
    /\ scope.result = "Ok"
    /\ scope.snap = {1}
    /\ scope.ins = {2}
    /\ lastQuery.rows = {1}

\* C7: the drop of a Transaction on which neither commit nor rollback was
\* called executes its rollback statement once and its commit statement
\* never; the drop that follows a commit or a rollback executes nothing.
C7_DropRollsBackOnce ==
    txn.state = "gone" =>
        /\ scope.how = "drop" =>
                /\ Len(ResolveCalls) = 1
                /\ ResolveCalls[1].by = "drop"
                /\ ResolveCalls[1].sql = "ROLLBACK"
        /\ scope.how \in {"commit", "rollback"} =>
                \A i \in 1..Len(ResolveCalls) : ResolveCalls[i].by # "drop"

C7_Witness ==
    /\ txn.state = "gone"
    /\ scope.how = "drop"
    /\ scope.ins # {}
    /\ ResolveCalls = <<Call("drop", "execute", "ROLLBACK", TRUE)>>

\* C8: at most one resolve statement is executed per Transaction: the one
\* of the first call made on it (commit: COMMIT, rollback: ROLLBACK); what
\* follows that call executes nothing.
C8_ResolveAtMostOnce ==
    /\ Len(ResolveCalls) <= 1
    /\ (txn.state = "gone" /\ scope.how = "commit") =>
            (Len(ResolveCalls) = 1 /\ ResolveCalls[1].by = "commit"
                /\ ResolveCalls[1].sql = "COMMIT")
    /\ (txn.state = "gone" /\ scope.how = "rollback") =>
            (Len(ResolveCalls) = 1 /\ ResolveCalls[1].by = "rollback"
                /\ ResolveCalls[1].sql = "ROLLBACK")

C8_Witness ==
    /\ txn.state = "gone"
    /\ txn.done
    /\ scope.how = "commit"
    /\ scope.result = "Ok"
    /\ Len(ResolveCalls) = 1

\* C9: once the Transaction is gone, the engine has executed its commit
\* statement or its rollback statement successfully.
C9_ResolvedBeforeGone ==
    txn.state = "gone" =>
        \E i \in 1..Len(ResolveCalls) :
            ResolveCalls[i].sql \in {"COMMIT", "ROLLBACK"} /\ ResolveCalls[i].ok

\* The segments of a script that are not blank (the empty one included).
NonBlank(ss) == SelectSeq(ss, LAMBDA t : ~Blank(t))

\* The segments the splitter cuts the script into.
ScriptSegments == Collect(script, SplitStatementList)

HasEmptySegment == \E k \in 1..Len(ScriptSegments) : ScriptSegments[k] = <<>>

\* The texts of the calls of one kind, with a result among res.
RECURSIVE CallTexts(_, _, _)
CallTexts(calls, op, res) ==
    IF calls = <<>>
    THEN <<>>
    ELSE (IF Head(calls).op = op /\ Head(calls).res \in res
          THEN <<Head(calls).text>> ELSE <<>>) \o CallTexts(Tail(calls), op, res)

IsPrefix(a, b) == Len(a) <= Len(b) /\ a = SubSeq(b, 1, Len(a))

\* What C12 says of a call of execute_script that has returned.
ExecuteScriptInOrder ==
    LET want == NonBlank(ScriptSegments)
        n == Len(run.calls)
    IN  /\ run.status \in {"ok", "err"}
        /\ \A k \in 1..n :
              /\ run.calls[k].text = ScriptSegments[run.calls[k].seg]
              /\ k < n => run.calls[k].seg <= run.calls[k + 1].seg
              /\ (run.calls[k].op = "prepare" /\ run.calls[k].res = "some") =>
                    /\ k < n
                    /\ run.calls[k + 1].op = "execute"
                    /\ run.calls[k + 1].seg = run.calls[k].seg
              /\ run.calls[k].res = "err" => k = n
        /\ run.status = "ok" => CallTexts(run.calls, "execute", {"ok"}) = want
        /\ run.status = "err" =>
              /\ n > 0 /\ run.calls[n].res = "err"
              /\ IsPrefix(CallTexts(run.calls, "execute", {"ok"}), want)

\* C12: execute_script prepares and executes the non-blank segments of the
\* script one after the other in source order; it returns the first error,
\* with what ran before it executed and nothing after it prepared or run.
C12_ExecuteScriptInOrder ==
    (run.op = "execute_script" /\ run.status # "idle") => ExecuteScriptInOrder

\* C12, for the scripts that have no empty segment.
C12_WithoutEmptySegment ==
    (run.op = "execute_script" /\ run.status # "idle" /\ ~HasEmptySegment) =>
        ExecuteScriptInOrder

\* What C13 says of a call of prepare_list that has returned.
PrepareListExact ==
    LET n == Len(run.calls)
    IN  /\ run.status \in {"ok", "err"}
        /\ \A k \in 1..n :
              /\ run.calls[k].op = "prepare"
              /\ run.calls[k].seg = k
              /\ run.calls[k].text = ScriptSegments[k]
              /\ Blank(run.calls[k].text) => run.calls[k].res = "none"
              /\ run.calls[k].res = "err" => k = n
        /\ run.status = "ok" =>
              /\ n = Len(ScriptSegments)
              /\ run.statements = NonBlank(ScriptSegments)
        /\ run.status = "err" => (n > 0 /\ run.calls[n].res = "err")

\* C13: prepare_list returns the statements of exactly the non-blank
\* segments in source order; an empty or blank segment adds no statement and
\* causes no failure; the first refused preparation ends the call with its
\* error.
C13_PrepareListExact ==
    (run.op = "prepare_list" /\ run.status # "idle") => PrepareListExact

\* C13, for the scripts that have no empty segment.
C13_WithoutEmptySegment ==
    (run.op = "prepare_list" /\ run.status # "idle" /\ ~HasEmptySegment) =>
        PrepareListExact

\* The segments next() has returned, and whether it has returned None.
RECURSIVE Texts(_)
Texts(items) ==
    IF items = <<>>
    THEN <<>>
    ELSE (IF Head(items).some THEN <<Head(items).str>> ELSE <<>>)
             \o Texts(Tail(items))

Yielded == Texts(segs)

Ended == \E k \in 1..Len(segs) : ~segs[k].some

\* The reference lexer: the positions of the `;` read outside every string
\* and every group. depth: the groups open; inString: inside '...', where
\* '' is a quote of the string and parentheses open and close nothing.
RECURSIVE RefCuts(_, _, _, _)
RefCuts(s, i, depth, inString) ==
    IF i > Len(s)
    THEN {}
    ELSE IF inString
    THEN IF s[i] # "'"
         THEN RefCuts(s, i + 1, depth, TRUE)
         ELSE IF i < Len(s) /\ s[i + 1] = "'"
         THEN RefCuts(s, i + 2, depth, TRUE)
         ELSE RefCuts(s, i + 1, depth, FALSE)
    ELSE CASE s[i] = "'" -> RefCuts(s, i + 1, depth, TRUE)
           [] s[i] = "(" -> RefCuts(s, i + 1, depth + 1, FALSE)
           [] s[i] = ")" /\ depth > 0 -> RefCuts(s, i + 1, depth - 1, FALSE)
           [] s[i] = ";" /\ depth = 0 -> {i} \cup RefCuts(s, i + 1, 0, FALSE)
           [] OTHER -> RefCuts(s, i + 1, depth, FALSE)

\* The text between consecutive cuts, and the text after the last cut if
\* there is any.
RECURSIVE RefPieces(_, _, _)
RefPieces(s, from, cuts) ==
    IF cuts = {}
    THEN IF from <= Len(s) THEN <<SubSeq(s, from, Len(s))>> ELSE <<>>
    ELSE LET c == CHOOSE x \in cuts : \A y \in cuts : x <= y
         IN  <<SubSeq(s, from, c - 1)>> \o RefPieces(s, c + 1, cuts \ {c})

RefSegments(s) == RefPieces(s, 1, RefCuts(s, 1, 0, FALSE))

\* C14: for every string, the splitter yields the segments of the
\* reference lexer, one by one in order, and all of them once it has ended.
C14_SplitterMatchesReference ==
    /\ IsPrefix(Yielded, RefSegments(script))
    /\ Ended => Yielded = RefSegments(script)

C14_Witness ==
    /\ Ended
    /\ script = <<"(", "'", ";", ";", "a">>
    /\ Yielded = <<script>>

NoQuoteNoParen(s) == \A i \in 1..Len(s) : s[i] \notin {"'", "(", ")"}

RECURSIVE Join(_)
Join(ss) ==
    IF ss = <<>> THEN <<>>
    ELSE IF Len(ss) = 1 THEN ss[1]
    ELSE ss[1] \o <<";">> \o Join(Tail(ss))

\* C15: for a script with no quote and no parenthesis, the yielded
\* segments joined with `;` are the script.
C15_RoundTrip ==
    (Ended /\ NoQuoteNoParen(script)) => Join(Yielded) = script

\* C15, amended: the yielded segments joined with `;` are the script
\* without its last character when that is a `;`, the script otherwise.
C15_RoundTripButFinalSemicolon ==
    (Ended /\ NoQuoteNoParen(script)) =>
        Join(Yielded) = IF script # <<>> /\ script[Len(script)] = ";"
                        THEN SubSeq(script, 1, Len(script) - 1)
                        ELSE script

C15_Witness ==
    /\ Ended
    /\ script = <<"a", ";", ";", "a", ";">>
    /\ Yielded = << <<"a">>, <<>>, <<"a">> >>

\* The calls of savepoint() that were given no name.
AnonCalls == SelectSeq(spLog, LAMBDA c : c.given = NoName)

\* C16: the names generated for successive anonymous savepoints carry
\* strictly increasing counter values, all below the connection's counter,
\* whether the savepoint is asked of the connection or of a Transaction.
C16_SavepointCounter ==
    /\ \A i \in 1..Len(AnonCalls) :
          /\ AnonCalls[i].name[1] = "anon"
          /\ AnonCalls[i].name[2] < next_savepoint
    /\ \A i \in 1..Len(AnonCalls), j \in 1..Len(AnonCalls) :
          i < j => AnonCalls[i].name[2] < AnonCalls[j].name[2]

C16_Witness ==
    /\ Len(spLog) = 2
    /\ spLog[1].via = "connection" /\ spLog[1].name = <<"anon", 0>>
    /\ spLog[2].via = "transaction" /\ spLog[2].name = <<"anon", 1>>

\* C17: every text savepoint(name) prepares (SAVEPOINT, RELEASE,
\* ROLLBACK TO) names the savepoint of the call, given or generated.
C17_SameSavepointName ==
    \A i \in 1..Len(spLog) :
        \A k \in 1..Len(spLog[i].prepared) :
            spLog[i].prepared[k].text.name = spLog[i].name

\* The i64 is a value of the target type.
InRange(limbs, target) ==
    IF target = "u32"
    THEN NonNegative(limbs) /\ limbs[3] = 0 /\ limbs[4] = 0
    ELSE LET ext == IF limbs[2] >= 32768 THEN 65535 ELSE 0
         IN  limbs[3] = ext /\ limbs[4] = ext

\* C18: decoding an Integer that is outside the range of the target type
\* (u32, i32) is fatal; it returns no value.
C18_NoSilentTruncation ==
    (decoded.status # "none" /\ value.v.tag = "Integer"
        /\ ~InRange(value.v.limbs, value.target)) => decoded.status = "panic"

\* C19: once execute's step has reported completion, or the stream has
\* yielded the end of the sequence or an error, the stream makes no further
\* step and every later item is the end of the sequence.
C19_ExhaustedIsTerminal ==
    /\ (exec.status = "resolved" /\ exec.step = "SQLITE_DONE") => Len(stepLog) = 1
    /\ \A i \in 1..Len(out), j \in 1..Len(out) :
          (i < j /\ out[i].kind \in {"end", "err"}) =>
              (out[j].kind = "end" /\ out[j].at = out[i].at)

\* C20: the wrapped operation is never polled while the delay drawn for
\* its preceding busy outcome, the first one included, has not elapsed.
C20_WaitsForDelay == bf.early = 0

\* The busy steps the stream made, and the Busy errors it yielded.
BusySteps == Cardinality({j \in 1..Len(stepLog) : stepLog[j] = "SQLITE_BUSY"})

BusyItems ==
    Cardinality({i \in 1..Len(out) : out[i].kind = "err" /\ out[i].err = "Busy"})

\* C21: a poll of the stream's BackoffState draws one delay at most, so
\* that no more delays are drawn than busy steps were made, and a busy step
\* yields the Busy error only when all the delays of the schedule have each
\* been followed by it.
C21_OneDelayPerPoll ==
    rows.state = "alive" =>
        /\ rows.backoff.drawn <= BusySteps
        /\ BusyItems > 0 => BusySteps > ScheduleLen

\* The items up to the first end of the sequence come from steps that
\* reported a row or completion only.
CleanRun(e) ==
    /\ out[e].kind = "end"
    /\ \A i \in 1..(e - 1) : out[i].kind = "row"
    /\ \A j \in 1..out[e].at : stepLog[j] \in {"SQLITE_ROW", "SQLITE_DONE"}

\* C22: with no busy and no error status, a stream that starts on the row
\* execute stepped to yields the k rows of the result set in order, each
\* once, then the end: row 1 with no step of its own, row i after i steps,
\* the end after k + 1.
C22_RowsInOrder ==
    \A e \in 1..Len(out) :
        (exec.step = "SQLITE_ROW" /\ CleanRun(e)) =>
            /\ e = stmt.nrows + 1
            /\ \A i \in 1..stmt.nrows : out[i] = Item("row", i, "-", i)
            /\ out[e].at = stmt.nrows + 1

C22_Witness ==
    /\ stmt.nrows = 2
    /\ stepLog = <<"SQLITE_ROW", "SQLITE_ROW", "SQLITE_DONE">>
    /\ Len(out) = 3
    /\ out[3].kind = "end"

\* C23: when binding the arguments fails, execute returns that error and
\* the statement is not stepped.
C23_BindFailureStopsExecute ==
    (exec.status # "idle" /\ exec.bind.tag = "Err") =>
        /\ exec.result = ExecErr(exec.bind.kind)
        /\ stepLog = <<>>

\* C24: within one stream the number of delays drawn never decreases and
\* never exceeds the length of the schedule, a row produced after a busy
\* wait included.
C24_GeneratorNeverRewound ==
    [][(rows.state = "alive" /\ rows'.state = "alive" /\ execCount' = execCount) =>
            /\ rows'.backoff.drawn >= rows.backoff.drawn
            /\ rows'.backoff.drawn <= ScheduleLen]_vars

C24_Witness ==
    /\ rows.state = "alive"
    /\ stepLog = <<"SQLITE_ROW", "SQLITE_BUSY", "SQLITE_ROW", "SQLITE_BUSY">>
    /\ rows.backoff.drawn = 2
    /\ Len(out) = 2
    /\ rows.waiting

AllBusy == \A i \in 1..Len(opLog) : opLog[i] = Err("Busy")

\* C25: the retried operation terminates: the BackoffFuture resolves, and
\* when the operation reported busy on every poll it resolves to the Busy
\* error, after the delays of the schedule.
C25_Terminates ==
    <>(/\ bf.state = "done"
       /\ AllBusy => (bf.result = Err("Busy") /\ bf.drawn = ScheduleLen))

C25_Witness ==
    /\ bf.state = "done"
    /\ AllBusy
    /\ Len(opLog) = ScheduleLen + 1
    /\ bf.result = Err("Busy")

\* C25, direct poll form: no more than ScheduleLen busy steps of a stream
\* go without a Busy error item, and a stream that waits has a delay armed
\* or elapsed to wake it.
C25_DirectFormBounded ==
    rows.state = "alive" =>
        /\ BusySteps - BusyItems <= ScheduleLen
        /\ rows.waiting => rows.backoff.delay \in {"armed", "elapsed"}

C27_BeginPreparesFirst ==
    LET begins == {i \in 1..Len(txnLog) : txnLog[i].by = "begin"}
        execs == {i \in begins : txnLog[i].op = "execute"}
    IN  /\ \A i \in execs :
              /\ i = 4
              /\ \A k \in 1..3 :
                    txnLog[k] = Call("begin", "prepare", BeginStatements[k], TRUE)
        /\ (\E i \in begins : txnLog[i].op = "prepare" /\ ~txnLog[i].ok) =>
              (execs = {} /\ txn.state = "none" /\ ResolveCalls = <<>>)
        /\ (\E i \in execs : ~txnLog[i].ok) =>
              (txn.state = "none" /\ ResolveCalls = <<>>)

C27_Witness ==
    /\ txn.state = "none"
    /\ Len(txnLog) = 4
    /\ txnLog[4] = Call("begin", "execute", "BEGIN", FALSE)
    /\ counts.txns = 2

====
